---- MODULE Spec2Model ----
(***************************************************************************)
(* Model of the service-name HTTP client of spring_cloud_client.go:        *)
(* the request dispatcher (Client.Request), the per-service round-robin    *)
(* rotation table (Client.getNextEndpoint over rrIndices) and the          *)
(* JSON / XML codec layer built on top of it.                              *)
(***************************************************************************)
EXTENDS Integers, Sequences, FiniteSets, TLC

\* ------------------------------------------------------------------ bounds

\* Calls one run of the concurrent specification starts.
MaxCalls == 4
\* Calls one run of the sequential specification starts.
MaxSeqCalls == 5
\* Longest endpoint list the Endpoint Directory returns.
MaxEndpoints == 3
\* Calls one run of the codec specification starts.
MaxCodecCalls == 2

\* Calls one run of the wrap-around specification starts.
MaxWrapCalls == 5

\* Goroutines calling the client concurrently.
Procs == {"p1", "p2"}
\* Service names callers ask for.
Services == {"svcA", "svcB"}
\* Errors the Endpoint Directory may return from GetEndpoints.
DiscoveryErrors == {"ErrDiscoveryDown", "ErrUnknownService"}

Nil == 0

\* ------------------------------------------------------- atomic.Uint32

\* A uint32 is held as its two 16-bit halves <<hi, lo>>, value hi * 2^16 + lo.
Half == 65536

U32Zero == <<0, 0>>

\* atomic.Uint32.Add(1): the post-increment value, wrapping at 2^32.
U32Inc(v) ==
    IF v[2] = Half - 1
    THEN <<(v[1] + 1) % Half, 0>>
    ELSE <<v[1], v[2] + 1>>

\* index - 1 computed without wrap-around: 0 - 1 stays 0.
U32DecClamped(v) ==
    IF v = <<0, 0>> THEN v
    ELSE IF v[2] = 0 THEN <<v[1] - 1, Half - 1>>
    ELSE <<v[1], v[2] - 1>>

\* index - 1 in uint32 arithmetic (0 - 1 wraps to 2^32 - 1).
U32Dec(v) ==
    IF v[2] = 0
    THEN <<(v[1] + Half - 1) % Half, Half - 1>>
    ELSE <<v[1], v[2] - 1>>

\* v % uint32(n) for 1 <= n < 2^16.
U32Mod(v, n) == ((v[1] % n) * (Half % n) + (v[2] % n)) % n

\* The value of a uint32 below 2^16 as a number.
U32Small(v) == IF v[1] = 0 THEN v[2] ELSE -1

\* --------------------------------------------------- endpoint directory

\* An endpoint is named by a number; the directory's list of length n.
EndpointList(n) == [i \in 1..n |-> i]

\* Every list discovery.GetEndpoints may return, the empty one included.
DirectoryLists == {EndpointList(n) : n \in 0..MaxEndpoints}

\* ------------------------------------------------------------- errors

\* An error value: its kind, and what it carries (code 0 and empty text when
\* it carries none).
Error(kind, code, text) == [kind |-> kind, code |-> code, text |-> text]

NoError == Error("nil", 0, "")
ErrNoAvailableEndpoint == Error("ErrNoAvailableEndpoint", 0, "")
\* The error value the Endpoint Directory returned.
DiscoveryError(e) == Error("discovery", 0, e)
\* fmt.Errorf("<msg>: %v", err)
WrappedError(msg) == Error("wrapped", 0, msg)
\* NewHttpStatusError(statusCode, body)
NewHttpStatusError(code, text) == Error("HttpStatusError", code, text)

\* --------------------------------------------------- textproto.MIMEHeader

HeaderAccept == "Accept"
HeaderContentType == "Content-Type"
MediaJson == "application/json"
MediaXml == "application/xml"

\* textproto.CanonicalMIMEHeaderKey on the keys callers use here.
CanonicalMIMEHeaderKey(k) ==
    CASE k = "accept" -> "Accept"
      [] k = "content-type" -> "Content-Type"
      [] OTHER -> k

\* MIMEHeader.Get: the first value stored under the canonical key, or "".
HeaderGet(h, key) ==
    LET k == CanonicalMIMEHeaderKey(key)
    IN IF k \in DOMAIN h /\ Len(h[k]) > 0 THEN h[k][1] ELSE ""

\* MIMEHeader.Set: the canonical key now holds exactly this one value.
HeaderSet(h, key, value) ==
    LET k == CanonicalMIMEHeaderKey(key)
    IN [x \in (DOMAIN h) \cup {k} |-> IF x = k THEN <<value>> ELSE h[x]]

\* make(textproto.MIMEHeader)
EmptyHeader == <<>>

\* The header maps callers hand in (a nil map is a separate choice).
HeaderMaps ==
    { EmptyHeader,
      ("Accept" :> <<"text/plain">>),
      ("Accept" :> <<"">>),
      ("Accept" :> <<"", "text/plain">>),
      ("Accept" :> <<>>),
      ("Content-Type" :> <<"application/json">>),
      ("Content-Type" :> <<"">>),
      ("Accept" :> <<"text/plain", "text/html">>) @@ ("Content-Type" :> <<"text/csv">>),
      ("accept" :> <<"text/html">>) }

\* ------------------------------------------------------ http.Response

Statuses == {199, 200, 204, 299, 300, 404}

\* Response body texts, and each as the values a decoder meets in it.
Bodies == {"", "{\"a\":1}", "<a>1</a>", "not found", "{\"a\":1} trailing"}

Tokens(text) ==
    CASE text = "" -> <<>>
      [] text = "{\"a\":1}" -> <<"json">>
      [] text = "<a>1</a>" -> <<"xml">>
      [] text = "not found" -> <<"junk">>
      [] text = "{\"a\":1} trailing" -> <<"json", "junk">>

\* A response as the transport hands it over: its status, the body the stream
\* delivers and whether the stream then fails instead of reaching its end.
Responses == [status : Statuses, body : Bodies, broken : BOOLEAN]
NoResp == [status |-> 0, body |-> "", broken |-> FALSE]

\* The responses the raw (non-codec) specification draws from.
RawResponses == { [status |-> 200, body |-> "", broken |-> FALSE],
                  [status |-> 404, body |-> "not found", broken |-> FALSE] }

VARIABLES
    \* Client.rrIndices: service name -> pointer to its counter (Nil: absent)
    rrIndices,
    \* the heap of atomic.Uint32 objects, one allocated per getNextEndpoint call
    cells,
    \* per goroutine: where its call stands, the call's arguments and locals
    call,
    \* per goroutine: the header map object the caller owns between calls
    callerMap,
    \* the Endpoint Directory: the list it currently holds for each service
    directory,
    \* calls started so far
    nCalls,
    \* per service: the selections made, in the order of their Add
    sels

vars == <<rrIndices, cells, call, callerMap, directory, nCalls, sels>>

\* No outbound request built (yet).
NoReq == [endpoint |-> Nil, header |-> EmptyHeader]

\* A goroutine outside any call. The fields:
\*   pc          where the call stands
\*   op          the operation under way: Request, JsonRequest or XmlRequest
\*               (JsonPost and the like while they marshal)
\*   svc         serviceName
\*   reqObj      the request object JsonPost and the like were given
\*   headers     the header map Request works on
\*   hdrNil      the caller passed a nil header map
\*   hdrArg      the header map as the caller passed it
\*   respObj     the caller passed an output target
\*   target      what the output target holds
\*   endpoints   the resolved list
\*   rrIndex     the counter pointer LoadOrStore returned
\*   endpoint    the endpoint chosen (Nil: none)
\*   ok          getNextEndpoint's second result
\*   req         the outbound request, once built: the endpoint it goes to and
\*               its header
\*   dirErr      the error discovery.GetEndpoints returned
\*   resp, err   what Request returned
\*   result      what the codec operation returned
\*   drained     the response body was read to its end
\*   closed      resp.Body.Close() ran
\*   nResolve, nAdd, nTransport, nDecode
\*               directory calls, counter increments, transport executions
\*               and decodes made by this call
Idle ==
    [pc |-> "idle", op |-> "none", svc |-> "none", reqObj |-> "none",
     headers |-> EmptyHeader, hdrNil |-> TRUE, hdrArg |-> EmptyHeader,
     respObj |-> FALSE,
     target |-> "zero", endpoints |-> <<>>, rrIndex |-> Nil, endpoint |-> Nil,
     ok |-> FALSE, req |-> NoReq,
     dirErr |-> NoError, resp |-> NoResp, err |-> NoError, result |-> NoError,
     drained |-> FALSE, closed |-> FALSE,
     nResolve |-> 0, nAdd |-> 0, nTransport |-> 0, nDecode |-> 0]

Init ==
    /\ rrIndices = [s \in Services |-> Nil]
    /\ cells = <<>>
    /\ call = [p \in Procs |-> Idle]
    /\ callerMap = [p \in Procs |-> EmptyHeader]
    /\ directory \in [Services -> DirectoryLists]
    /\ nCalls = 0
    /\ sels = [s \in Services |-> <<>>]

\* ------------------------------------------------------ Client.Request

\* The topology changes: the directory now holds another list for the service.
\* (Only GetEndpoints reads the directory, so a change made while a call is
\* under way shows no earlier than one made once the call is over.)
Topology(s) ==
    /\ \A p \in Procs : call[p].pc = "idle"
    /\ \E l \in DirectoryLists \ {directory[s]} :
         directory' = [directory EXCEPT ![s] = l]
    /\ UNCHANGED <<rrIndices, cells, call, callerMap, nCalls, sels>>

\* A caller enters Request, directly or through Get, Post, Put or Delete
\* (which only fix the method), for one of `services`.
Call(p, max, services) ==
    /\ call[p].pc = "idle"
    /\ nCalls < max
    /\ \E s \in services :
         call' = [call EXCEPT ![p] =
                    [Idle EXCEPT !.pc = "resolve", !.op = "Request", !.svc = s]]
    /\ nCalls' = nCalls + 1
    /\ UNCHANGED <<rrIndices, cells, callerMap, directory, sels>>

\* A resolution error handed on inside a wrapper instead of as it is.
ResolveErrorWrapped(e) == WrappedError("failed to get endpoints")

\* if err != nil { return nil, err }: the directory's error, as it is.
ResolveError(e) == e

\* endpoints, err := c.discovery.GetEndpoints(serviceName): the directory
\* fails, and Request returns its error.
GetEndpointsFails(p) ==
    /\ call[p].pc = "resolve"
    /\ \E e \in DiscoveryErrors :
         call' = [call EXCEPT ![p].dirErr = DiscoveryError(e),
                              ![p].err = ResolveError(DiscoveryError(e)),
                              ![p].nResolve = @ + 1,
                              ![p].pc = "ret"]
    /\ UNCHANGED <<rrIndices, cells, callerMap, directory, nCalls, sels>>

\* endpoints, err := c.discovery.GetEndpoints(serviceName): a list comes back.
GetEndpointsOk(p) ==
    /\ call[p].pc = "resolve"
    /\ call' = [call EXCEPT ![p].endpoints = directory[call[p].svc],
                            ![p].nResolve = @ + 1,
                            ![p].pc = "select"]
    /\ UNCHANGED <<rrIndices, cells, callerMap, directory, nCalls, sels>>

\* An empty list reported as a failed transport call.
EmptyListErrorWrapped == WrappedError("failed to perform HTTP request")

\* if !ok { return nil, ErrNoAvailableEndpoint }
EmptyListError == ErrNoAvailableEndpoint

\* A getNextEndpoint that tests for the empty list only after it has loaded
\* or stored the counter and incremented it.
SelectEmptyAdvancing(p) ==
    /\ call[p].pc = "select"
    /\ Len(call[p].endpoints) = 0
    /\ LET new == Len(cells) + 1
           table == IF rrIndices[call[p].svc] = Nil
                    THEN [rrIndices EXCEPT ![call[p].svc] = new]
                    ELSE rrIndices
           grown == Append(cells, U32Zero)
           ptr == table[call[p].svc]
       IN /\ rrIndices' = table
          /\ cells' = [grown EXCEPT ![ptr] = U32Inc(grown[ptr])]
    /\ call' = [call EXCEPT ![p].endpoint = Nil,
                            ![p].ok = FALSE,
                            ![p].err = EmptyListError,
                            ![p].pc = "ret"]
    /\ UNCHANGED <<callerMap, directory, nCalls, sels>>

\* getNextEndpoint on an empty list: (nil, false), and Request returns
\* ErrNoAvailableEndpoint.
SelectEmpty(p) ==
    /\ call[p].pc = "select"
    /\ Len(call[p].endpoints) = 0
    /\ call' = [call EXCEPT ![p].endpoint = Nil,
                            ![p].ok = FALSE,
                            ![p].err = EmptyListError,
                            ![p].pc = "ret"]
    /\ UNCHANGED <<rrIndices, cells, callerMap, directory, nCalls, sels>>

\* What a racy load-then-store would leave in the table: the new pointer,
\* whether or not a counter is already there.
StoreAlways(table, s, new) == [table EXCEPT ![s] = new]

\* A table that keeps one counter for all services: a service without an
\* entry is given the counter some other service already has.
LoadOrStoreShared(table, s, new) ==
    IF table[s] # Nil THEN table
    ELSE IF \E t \in DOMAIN table : table[t] # Nil
         THEN [table EXCEPT ![s] =
                 table[CHOOSE t \in DOMAIN table : table[t] # Nil]]
         ELSE [table EXCEPT ![s] = new]

\* syncx.Map.LoadOrStore: the table after the call.
LoadOrStore(table, s, new) ==
    IF table[s] = Nil THEN [table EXCEPT ![s] = new] ELSE table

\* var newRRIndex atomic.Uint32; rrIndex, _ := c.rrIndices.LoadOrStore(...)
SelectLoadOrStore(p) ==
    /\ call[p].pc = "select"
    /\ Len(call[p].endpoints) # 0
    /\ LET new == Len(cells) + 1
           table == LoadOrStore(rrIndices, call[p].svc, new)
       IN /\ cells' = Append(cells, U32Zero)
          /\ rrIndices' = table
          /\ call' = [call EXCEPT ![p].rrIndex = table[call[p].svc],
                                  ![p].pc = "add"]
    /\ UNCHANGED <<callerMap, directory, nCalls, sels>>

\* An index computed from the post-increment value without the - 1.
IndexOfNoOffset(index, n) == U32Mod(index, n)

\* A selection that never rotates: always the first endpoint.
IndexOfFirst(index, n) == 0

\* idx := (index - 1) % uint32(len(endpoints))
IndexOf(index, n) == U32Mod(U32Dec(index), n)

\* index := rrIndex.Add(1); idx := ...; return endpoints[int(idx)], true
SelectAdd(p) ==
    /\ call[p].pc = "add"
    /\ LET c == call[p]
           index == U32Inc(cells[c.rrIndex])
           idx == IndexOf(index, Len(c.endpoints))
       IN /\ cells' = [cells EXCEPT ![c.rrIndex] = index]
          /\ call' = [call EXCEPT ![p].endpoint = c.endpoints[idx + 1],
                                  ![p].ok = TRUE,
                                  ![p].nAdd = @ + 1,
                                  ![p].pc = "dispatch"]
          /\ sels' = [sels EXCEPT ![c.svc] =
                        Append(@, [n |-> Len(c.endpoints), idx |-> idx,
                                   ep |-> c.endpoints[idx + 1],
                                   post |-> index])]
    /\ UNCHANGED <<rrIndices, callerMap, directory, nCalls>>

\* Methods and paths callers pass (Get, JsonPost and the like fix the method);
\* http.NewRequestWithContext rejects a method that is no token and a URL that
\* does not parse.
Methods == {"GET", "POST", "BAD METHOD"}
Paths == {"/items", "/%zz"}

NewRequestOk(method, path) == method # "BAD METHOD" /\ path # "/%zz"

\* The orders in which a range over the map may visit its keys.
KeyOrders(h) ==
    LET D == DOMAIN h
    IN {o \in [1..Cardinality(D) -> D] :
          \A i, j \in 1..Cardinality(D) : o[i] = o[j] => i = j}

\* req.Header.Add(key, value) for every value of every key, in that order:
\* each value is appended under the key's canonical form.
RECURSIVE AddAll(_, _, _)
AddAll(hdr, h, order) ==
    IF order = <<>> THEN hdr
    ELSE LET k == Head(order)
             ck == CanonicalMIMEHeaderKey(k)
             cur == IF ck \in DOMAIN hdr THEN hdr[ck] ELSE <<>>
             nxt == IF h[k] = <<>> THEN hdr
                    ELSE [x \in (DOMAIN hdr) \cup {ck} |->
                            IF x = ck THEN cur \o h[k] ELSE hdr[x]]
         IN AddAll(nxt, h, Tail(order))

\* A failed request construction that gives the rotation slot back: the
\* counter is taken down by one again.
NewRequestFailsReleasing(p) ==
    /\ call[p].pc = "dispatch"
    /\ \E m \in Methods, path \in Paths :
         /\ ~NewRequestOk(m, path)
         /\ call' = [call EXCEPT
                ![p].err = WrappedError("failed to create HTTP request"),
                ![p].pc = "ret"]
    /\ cells' = [cells EXCEPT ![call[p].rrIndex] = U32Dec(@)]
    /\ UNCHANGED <<rrIndices, callerMap, directory, nCalls, sels>>

\* http.NewRequestWithContext fails: no transport call is made.
NewRequestFails(p) ==
    /\ call[p].pc = "dispatch"
    /\ \E m \in Methods, path \in Paths :
         /\ ~NewRequestOk(m, path)
         /\ call' = [call EXCEPT
                ![p].err = WrappedError("failed to create HTTP request"),
                ![p].pc = "ret"]
    /\ UNCHANGED <<rrIndices, cells, callerMap, directory, nCalls, sels>>

\* A dispatcher that, when the transport fails, goes back to select another
\* endpoint of the resolved list.
DoRetrying(p, responses) ==
    /\ call[p].pc = "dispatch"
    /\ \E m \in Methods, path \in Paths, o \in KeyOrders(call[p].headers) :
         /\ NewRequestOk(m, path)
         /\ LET c == call[p]
                req == [endpoint |-> c.endpoint,
                        header |-> AddAll(EmptyHeader, c.headers, o)]
            IN \/ call' = [call EXCEPT
                      ![p].req = req,
                      ![p].nTransport = @ + 1,
                      ![p].err = WrappedError("failed to perform HTTP request"),
                      ![p].pc = IF c.nTransport = 0 THEN "select" ELSE "ret"]
               \/ \E r \in responses :
                    call' = [call EXCEPT
                      ![p].req = req,
                      ![p].nTransport = @ + 1,
                      ![p].resp = r,
                      ![p].err = NoError,
                      ![p].pc = "ret"]
    /\ UNCHANGED <<rrIndices, cells, callerMap, directory, nCalls, sels>>

\* The request is built, the headers are copied in and c.httpClient.Do(req)
\* runs once: it fails (DNS, connect, TLS, timeout, cancellation) or hands
\* over a response from `responses`.
Do(p, responses) ==
    /\ call[p].pc = "dispatch"
    /\ \E m \in Methods, path \in Paths, o \in KeyOrders(call[p].headers) :
         /\ NewRequestOk(m, path)
         /\ LET c == call[p]
                req == [endpoint |-> c.endpoint,
                        header |-> AddAll(EmptyHeader, c.headers, o)]
            IN \/ call' = [call EXCEPT
                      ![p].req = req,
                      ![p].nTransport = @ + 1,
                      ![p].err = WrappedError("failed to perform HTTP request"),
                      ![p].pc = "ret"]
               \/ \E r \in responses :
                    call' = [call EXCEPT
                      ![p].req = req,
                      ![p].nTransport = @ + 1,
                      ![p].resp = r,
                      ![p].pc = "ret"]
    /\ UNCHANGED <<rrIndices, cells, callerMap, directory, nCalls, sels>>

\* A return that drops the service's counter from the table when the call
\* failed.
FinishEvicting(p) ==
    /\ \/ call[p].pc = "ret" /\ call[p].op = "Request"
       \/ call[p].pc = "done"
    /\ call' = [call EXCEPT ![p] = Idle]
    /\ rrIndices' = IF call[p].err # NoError /\ call[p].svc \in Services
                    THEN [rrIndices EXCEPT ![call[p].svc] = Nil]
                    ELSE rrIndices
    /\ UNCHANGED <<cells, callerMap, directory, nCalls, sels>>

\* The call is over: Request has returned to a raw caller, or the codec
\* operation has returned.
Finish(p) ==
    /\ \/ call[p].pc = "ret" /\ call[p].op = "Request"
       \/ call[p].pc = "done"
    /\ call' = [call EXCEPT ![p] = Idle]
    /\ UNCHANGED <<rrIndices, cells, callerMap, directory, nCalls, sels>>

Next ==
    \E p \in Procs :
        \/ Call(p, MaxCalls, Services)
        \/ GetEndpointsFails(p)
        \/ GetEndpointsOk(p)
        \/ SelectEmpty(p)
        \/ SelectLoadOrStore(p)
        \/ SelectAdd(p)
        \/ NewRequestFails(p)
        \/ Do(p, RawResponses)
        \/ Finish(p)

\* Concurrent callers against a topology that stays as it is.
Spec == Init /\ [][Next]_vars

\* One caller, one call after the other for one service, while the topology
\* changes between the calls.
SeqProc == "p1"
SeqServices == {"svcA"}

NextSeq ==
    \/ Call(SeqProc, MaxSeqCalls, SeqServices)
    \/ GetEndpointsFails(SeqProc)
    \/ GetEndpointsOk(SeqProc)
    \/ SelectEmpty(SeqProc)
    \/ SelectLoadOrStore(SeqProc)
    \/ SelectAdd(SeqProc)
    \/ NewRequestFails(SeqProc)
    \/ Do(SeqProc, RawResponses)
    \/ Finish(SeqProc)
    \/ \E s \in SeqServices : Topology(s)

SpecSeq == Init /\ [][NextSeq]_vars

\* ------------------------------------------- a long-lived client

\* The counter of a service that has been selected 2^32 - 3 times.
WrapStart == <<Half - 1, Half - 3>>

\* A client that has served svcA for so long that its counter is about to
\* wrap; the selection log holds the selections made from here on.
InitWrap ==
    /\ rrIndices = [s \in Services |-> IF s = "svcA" THEN 1 ELSE Nil]
    /\ cells = <<WrapStart>>
    /\ call = [p \in Procs |-> Idle]
    /\ callerMap = [p \in Procs |-> EmptyHeader]
    /\ directory \in [Services -> DirectoryLists]
    /\ nCalls = 0
    /\ sels = [s \in Services |-> <<>>]

NextWrap ==
    \/ Call(SeqProc, MaxWrapCalls, SeqServices)
    \/ GetEndpointsFails(SeqProc)
    \/ GetEndpointsOk(SeqProc)
    \/ SelectEmpty(SeqProc)
    \/ SelectLoadOrStore(SeqProc)
    \/ SelectAdd(SeqProc)
    \/ NewRequestFails(SeqProc)
    \/ Do(SeqProc, RawResponses)
    \/ Finish(SeqProc)

\* One caller, one call after the other for one service, across the wrap of
\* its counter, against a topology that stays as it is.
SpecWrap == InitWrap /\ [][NextWrap]_vars

\* ------------------------------------------------- the codec layer

\* JsonRequest and XmlRequest, which every helper of their encoding ends in,
\* and the helpers that marshal a request object first.
JsonOps == {"JsonRequest", "JsonPost", "JsonPut"}
XmlOps == {"XmlRequest", "XmlPost", "XmlPut"}
CodecOps == JsonOps \cup XmlOps
RequestOps == {"JsonRequest", "XmlRequest"}
MarshalOps == {"JsonPost", "JsonPut", "XmlPost", "XmlPut"}

CodecOf(op) == IF op \in JsonOps THEN "json" ELSE "xml"
MediaOf(codec) == IF codec = "json" THEN MediaJson ELSE MediaXml

\* Request objects callers pass: a struct both encodings take, a map only JSON
\* takes, a channel neither takes.
ReqObjects == {"struct", "map", "chan"}

\* json.Marshal / xml.Marshal: whether the object serializes, and to what.
Marshal(codec, obj) ==
    CASE obj = "chan" -> [ok |-> FALSE, bytes |-> ""]
      [] obj = "map" /\ codec = "xml" -> [ok |-> FALSE, bytes |-> ""]
      [] codec = "json" -> [ok |-> TRUE, bytes |-> "{\"a\":1}"]
      [] OTHER -> [ok |-> TRUE, bytes |-> "<a>1</a>"]

\* A defaulting that sets the codec's media type whatever the caller set.
DefaultHeaderAlways(h, key, media) == HeaderSet(h, key, media)

\* if headers.Get(key) == "" { headers.Set(key, media) }
DefaultHeader(h, key, media) ==
    IF HeaderGet(h, key) = "" THEN HeaderSet(h, key, media) ELSE h

\* The header map after JsonRequest / XmlRequest defaulted Accept and
\* Content-Type.
DefaultHeaders(h, media) ==
    DefaultHeader(DefaultHeader(h, HeaderAccept, media), HeaderContentType, media)

\* A status test that takes 300 for a success.
IsSuccessUpTo300(status) == status >= 200 /\ status <= 300

\* resp.StatusCode >= 200 && resp.StatusCode < 300
IsSuccess(status) == status >= 200 /\ status < 300

\* json / xml Decoder.Decode(respObj): it succeeds when the body starts with a
\* value of its encoding (what follows the value is not looked at).
DecodeOk(codec, text) ==
    Tokens(text) # <<>> /\ Tokens(text)[1] = codec

\* Whether a decode may have read the body to its end: never when the stream
\* breaks first, always when it meets the end looking for a value, and
\* otherwise as the decoder's buffering has it.
DecodeDrains(resp) ==
    IF resp.broken THEN {FALSE}
    ELSE IF Tokens(resp.body) = <<>> THEN {TRUE}
    ELSE BOOLEAN

\* The header argument of a call: nil, one of `maps`, or the map the caller
\* kept from its last call.
HeaderArgs(p, maps) ==
    {[nil |-> TRUE, map |-> EmptyHeader]}
        \cup {[nil |-> FALSE, map |-> m] : m \in maps \cup {callerMap[p]}}

\* A helper that carries on although its request object did not serialize.
EncodeOkIgnored(op, obj) == TRUE

\* body, err := json.Marshal(reqObj); if err != nil { return ... }: whether the
\* operation gets past its marshalling (JsonRequest and XmlRequest have none).
EncodeOk(op, obj) == op \in MarshalOps => Marshal(CodecOf(op), obj).ok

\* The request objects an operation may be given.
ReqObjectsOf(op) == IF op \in MarshalOps THEN ReqObjects ELSE {"none"}

\* JsonPost, JsonPut, XmlPost, XmlPut: the request object does not serialize.
\* The call returns the encode error at once.
EncodeFails(p, max, services, maps) ==
    /\ call[p].pc = "idle"
    /\ nCalls < max
    /\ \E s \in services, o \in MarshalOps, obj \in ReqObjects,
          h \in HeaderArgs(p, maps), target \in BOOLEAN :
         /\ ~EncodeOk(o, obj)
         /\ call' = [call EXCEPT ![p] =
               [Idle EXCEPT
                  !.pc = "done", !.op = o, !.svc = s, !.reqObj = obj,
                  !.hdrNil = h.nil,
                  !.hdrArg = h.map,
                  !.respObj = target,
                  !.result = WrappedError("failed to marshal request object")]]
         /\ callerMap' = [callerMap EXCEPT ![p] = IF h.nil THEN @ ELSE h.map]
    /\ nCalls' = nCalls + 1
    /\ UNCHANGED <<rrIndices, cells, directory, sels>>

\* A JsonRequest / XmlRequest that defaults the headers in a copy of the
\* caller's map and leaves the map itself as it was handed in.
CodecCallCopying(p, max, services, maps, ops) ==
    /\ call[p].pc = "idle"
    /\ nCalls < max
    /\ \E s \in services, o \in ops, h \in HeaderArgs(p, maps),
          target \in BOOLEAN :
         \E obj \in ReqObjectsOf(o) :
            LET hdr == DefaultHeaders(h.map, MediaOf(CodecOf(o)))
            IN /\ EncodeOk(o, obj)
               /\ call' = [call EXCEPT ![p] =
                     [Idle EXCEPT
                        !.pc = "resolve", !.op = o, !.svc = s, !.reqObj = obj,
                        !.hdrNil = h.nil, !.hdrArg = h.map, !.headers = hdr,
                        !.respObj = target]]
               /\ callerMap' = [callerMap EXCEPT ![p] =
                                  IF h.nil THEN @ ELSE h.map]
    /\ nCalls' = nCalls + 1
    /\ UNCHANGED <<rrIndices, cells, directory, sels>>

\* JsonRequest or XmlRequest is entered, directly or from a helper: from
\* JsonGet or JsonDelete (which only fix the method, the body and, for
\* JsonDelete, a nil output target), or from JsonPost or JsonPut once the
\* request object serialized. It gets as far as c.Request: a nil header map is
\* replaced by a new one, and Accept and Content-Type are defaulted in the map
\* (the caller's own map when there is one).
CodecCall(p, max, services, maps, ops) ==
    /\ call[p].pc = "idle"
    /\ nCalls < max
    /\ \E s \in services, o \in ops, h \in HeaderArgs(p, maps),
          target \in BOOLEAN :
         \E obj \in ReqObjectsOf(o) :
            LET hdr == DefaultHeaders(h.map, MediaOf(CodecOf(o)))
            IN /\ EncodeOk(o, obj)
               /\ call' = [call EXCEPT ![p] =
                     [Idle EXCEPT
                        !.pc = "resolve", !.op = o, !.svc = s, !.reqObj = obj,
                        !.hdrNil = h.nil, !.hdrArg = h.map, !.headers = hdr,
                        !.respObj = target]]
               /\ callerMap' = [callerMap EXCEPT ![p] = IF h.nil THEN @ ELSE hdr]
    /\ nCalls' = nCalls + 1
    /\ UNCHANGED <<rrIndices, cells, directory, sels>>

\* resp, err := c.Request(...); if err != nil { return err }
CodecRequestFailed(p) ==
    /\ call[p].pc = "ret"
    /\ call[p].op \in CodecOps
    /\ call[p].err # NoError
    /\ call' = [call EXCEPT ![p].result = call[p].err, ![p].pc = "done"]
    /\ UNCHANGED <<rrIndices, cells, callerMap, directory, nCalls, sels>>

\* A decode step that takes a response without content for a success and
\* leaves the output target alone.
CodecDecodeSkippingEmpty(p) ==
    /\ call[p].pc = "ret"
    /\ call[p].op \in CodecOps
    /\ call[p].err = NoError
    /\ IsSuccess(call[p].resp.status)
    /\ call[p].respObj
    /\ LET c == call[p]
           codec == CodecOf(c.op)
           empty == c.resp.status = 204 \/ c.resp.body = ""
       IN \E d \in DecodeDrains(c.resp) :
            call' = [call EXCEPT
               ![p].nDecode = IF empty THEN @ ELSE @ + 1,
               ![p].drained = d,
               ![p].target = IF ~empty /\ DecodeOk(codec, c.resp.body)
                             THEN Tokens(c.resp.body)[1] ELSE "zero",
               ![p].result = IF empty \/ DecodeOk(codec, c.resp.body)
                             THEN NoError
                             ELSE WrappedError("failed to decode response"),
               ![p].closed = TRUE,
               ![p].pc = "done"]
    /\ UNCHANGED <<rrIndices, cells, callerMap, directory, nCalls, sels>>

\* A success status and an output target: the body is decoded into it.
CodecDecode(p) ==
    /\ call[p].pc = "ret"
    /\ call[p].op \in CodecOps
    /\ call[p].err = NoError
    /\ IsSuccess(call[p].resp.status)
    /\ call[p].respObj
    /\ LET c == call[p]
           codec == CodecOf(c.op)
       IN \E d \in DecodeDrains(c.resp) :
            call' = [call EXCEPT
               ![p].nDecode = @ + 1,
               ![p].drained = d,
               ![p].target = IF DecodeOk(codec, c.resp.body)
                             THEN Tokens(c.resp.body)[1] ELSE "zero",
               ![p].result = IF DecodeOk(codec, c.resp.body) THEN NoError
                             ELSE WrappedError("failed to decode response"),
               ![p].closed = TRUE,
               ![p].pc = "done"]
    /\ UNCHANGED <<rrIndices, cells, callerMap, directory, nCalls, sels>>

\* A return on a success status without an output target that leaves the
\* response body open.
CodecNoTargetNoClose(p) ==
    /\ call[p].pc = "ret"
    /\ call[p].op \in CodecOps
    /\ call[p].err = NoError
    /\ IsSuccess(call[p].resp.status)
    /\ ~call[p].respObj
    /\ call' = [call EXCEPT ![p].result = NoError, ![p].pc = "done"]
    /\ UNCHANGED <<rrIndices, cells, callerMap, directory, nCalls, sels>>

\* A success status and no output target: nothing is read, nil is returned
\* (and the deferred resp.Body.Close() runs).
CodecNoTarget(p) ==
    /\ call[p].pc = "ret"
    /\ call[p].op \in CodecOps
    /\ call[p].err = NoError
    /\ IsSuccess(call[p].resp.status)
    /\ ~call[p].respObj
    /\ call' = [call EXCEPT ![p].result = NoError,
                            ![p].closed = TRUE,
                            ![p].pc = "done"]
    /\ UNCHANGED <<rrIndices, cells, callerMap, directory, nCalls, sels>>

\* Any other status: io.ReadAll(resp.Body), and a status error with the
\* status code and the body text, or with the read failure when the read fails.
CodecStatusError(p) ==
    /\ call[p].pc = "ret"
    /\ call[p].op \in CodecOps
    /\ call[p].err = NoError
    /\ ~IsSuccess(call[p].resp.status)
    /\ LET r == call[p].resp
       IN call' = [call EXCEPT
             ![p].drained = ~r.broken,
             ![p].result =
                 IF r.broken
                 THEN NewHttpStatusError(r.status, "failed to read response body")
                 ELSE NewHttpStatusError(r.status, r.body),
             ![p].closed = TRUE,
             ![p].pc = "done"]
    /\ UNCHANGED <<rrIndices, cells, callerMap, directory, nCalls, sels>>

\* The header maps the specification of the status handling draws from.
PlainMaps == {EmptyHeader}

\* The directory as the codec specifications have it: svcA with no endpoint or
\* with two.
InitCodec ==
    /\ Init
    /\ directory["svcA"] \in {EndpointList(0), EndpointList(2)}
    /\ directory["svcB"] = EndpointList(0)

\* One caller using the codec operations, one call after the other, against
\* every response.
NextCodec ==
    \/ EncodeFails(SeqProc, MaxCodecCalls, SeqServices, PlainMaps)
    \/ CodecCall(SeqProc, MaxCodecCalls, SeqServices, PlainMaps, CodecOps)
    \/ GetEndpointsFails(SeqProc)
    \/ GetEndpointsOk(SeqProc)
    \/ SelectEmpty(SeqProc)
    \/ SelectLoadOrStore(SeqProc)
    \/ SelectAdd(SeqProc)
    \/ NewRequestFails(SeqProc)
    \/ Do(SeqProc, Responses)
    \/ CodecRequestFailed(SeqProc)
    \/ CodecDecode(SeqProc)
    \/ CodecNoTarget(SeqProc)
    \/ CodecStatusError(SeqProc)
    \/ Finish(SeqProc)

SpecCodec == InitCodec /\ [][NextCodec]_vars

\* One caller using the codec operations, one call after the other, with
\* every header map.
NextHeaders ==
    \/ CodecCall(SeqProc, MaxCodecCalls, SeqServices, HeaderMaps, RequestOps)
    \/ GetEndpointsFails(SeqProc)
    \/ GetEndpointsOk(SeqProc)
    \/ SelectEmpty(SeqProc)
    \/ SelectLoadOrStore(SeqProc)
    \/ SelectAdd(SeqProc)
    \/ NewRequestFails(SeqProc)
    \/ Do(SeqProc, RawResponses)
    \/ CodecRequestFailed(SeqProc)
    \/ CodecDecode(SeqProc)
    \/ CodecNoTarget(SeqProc)
    \/ CodecStatusError(SeqProc)
    \/ Finish(SeqProc)

SpecHeaders == InitCodec /\ [][NextHeaders]_vars

\* ------------------------------------------------------------ claims

\* The selections of service s that were all made against lists of length n.
AllAgainst(s, n) == \A k \in DOMAIN sels[s] : sels[s][k].n = n

\* How often index i was returned for service s.
TimesSelected(s, i) == Cardinality({k \in DOMAIN sels[s] : sels[s][k].idx = i})

\* C1: for a service selected against one fixed list of length N >= 1 from the
\* first call on, the first call returns the endpoint at index 0 and the k-th
\* call the endpoint at index (k-1) mod N.
C1_SequentialRoundRobin ==
    \A s \in Services, n \in 1..MaxEndpoints :
        AllAgainst(s, n) =>
            /\ \A k \in DOMAIN sels[s] :
                 /\ sels[s][k].idx = (k - 1) % n
                 /\ sels[s][k].ep = EndpointList(n)[((k - 1) % n) + 1]
            /\ \A p \in Procs :
                 (call[p].pc = "dispatch" /\ call[p].svc = s) =>
                     call[p].endpoint =
                         call[p].endpoints[((Len(sels[s]) - 1) % n) + 1]

\* C1's case: a fourth call against a fixed list of three has come round to
\* index 0 again.
C1_Witness ==
    /\ Len(sels["svcA"]) = 4
    /\ AllAgainst("svcA", 3)
    /\ sels["svcA"][4].idx = 0
    /\ call[SeqProc].pc = "dispatch"

\* C2: with a fixed list of length N >= 1, the selections concurrent callers
\* make for one service all obtain different post-increment counter values,
\* and whenever their number M is a multiple of N each index has been
\* returned exactly M / N times.
C2_ConcurrentRoundRobin ==
    \A s \in Services :
        LET n == Len(directory[s])
            m == Len(sels[s])
        IN /\ \A i, j \in DOMAIN sels[s] :
                 sels[s][i].post = sels[s][j].post => i = j
           /\ (n >= 1 /\ m % n = 0) =>
                 \A i \in 0..(n - 1) : TimesSelected(s, i) * n = m

\* C2's case: two callers have just selected for the same service at the same
\* time, four selections over a list of two.
C2_Witness ==
    /\ \A p \in Procs : call[p].pc = "dispatch" /\ call[p].svc = "svcA"
    /\ Len(directory["svcA"]) = 2
    /\ Len(sels["svcA"]) = 4
    /\ TimesSelected("svcA", 0) = 2

\* C3: however the first selections for a service interleave, one counter is
\* installed for it, every caller increments that counter, and after K
\* selections it holds K: no other counter is ever incremented.
C3_InsertIfAbsent ==
    /\ \A s \in Services :
         IF rrIndices[s] = Nil
         THEN sels[s] = <<>>
         ELSE U32Small(cells[rrIndices[s]]) = Len(sels[s])
    /\ \A p \in Procs :
         call[p].pc \in {"add", "dispatch"} =>
             call[p].rrIndex = rrIndices[call[p].svc]
    /\ \A i \in DOMAIN cells :
         (\A s \in Services : rrIndices[s] # i) => cells[i] = U32Zero

\* C3's case: two callers are both between LoadOrStore and Add of the first
\* selection for the service.
C3_Witness ==
    /\ \A p \in Procs : call[p].pc = "add" /\ call[p].svc = "svcA"
    /\ sels["svcA"] = <<>>
    /\ Len(cells) = 2

\* C4: when the directory succeeds with an empty list, getNextEndpoint reports
\* not-ok with no endpoint, and Request returns ErrNoAvailableEndpoint, which
\* is no directory error, having executed no transport call.
C4_EmptyList ==
    \A p \in Procs :
        (/\ call[p].pc = "ret"
         /\ call[p].nResolve = 1
         /\ call[p].dirErr = NoError
         /\ call[p].endpoints = <<>>) =>
            /\ call[p].ok = FALSE
            /\ call[p].endpoint = Nil
            /\ call[p].err = ErrNoAvailableEndpoint
            /\ \A e \in DiscoveryErrors : call[p].err # DiscoveryError(e)
            /\ call[p].resp = NoResp
            /\ call[p].req = NoReq
            /\ call[p].nTransport = 0

\* C4's case: Request has returned after the directory handed it an empty list.
C4_Witness ==
    \E p \in Procs :
        /\ call[p].pc = "ret"
        /\ call[p].dirErr = NoError
        /\ call[p].endpoints = <<>>
        /\ directory[call[p].svc] = <<>>

\* C9: when the directory fails, Request returns the directory's error as it
\* is, having resolved once and made no selection (no LoadOrStore, no
\* increment) and no transport call.
C9_ResolutionFailure ==
    \A p \in Procs :
        (call[p].pc = "ret" /\ call[p].dirErr # NoError) =>
            /\ call[p].err = call[p].dirErr
            /\ call[p].resp = NoResp
            /\ call[p].nResolve = 1
            /\ call[p].rrIndex = Nil
            /\ call[p].nAdd = 0
            /\ call[p].nTransport = 0
            /\ call[p].req = NoReq

\* C9's case: Request has returned after the directory failed, for a service
\* that already has a counter.
C9_Witness ==
    \E p \in Procs :
        /\ call[p].pc = "ret"
        /\ call[p].dirErr = DiscoveryError("ErrUnknownService")
        /\ rrIndices[call[p].svc] # Nil

\* A codec call that has returned after Request handed it a response.
Classified(p) ==
    /\ call[p].pc = "done"
    /\ call[p].op \in CodecOps
    /\ call[p].nTransport = 1
    /\ call[p].err = NoError

\* C5 as stated: a status in [200,300) with no output target returns no error
\* and decodes nothing; any other status returns a status error carrying that
\* status code and the raw body text, and the body is never decoded.
C5_Original ==
    \A p \in Procs :
        Classified(p) =>
            LET c == call[p]
                success == c.resp.status >= 200 /\ c.resp.status < 300
            IN /\ (success /\ ~c.respObj) =>
                     (c.result = NoError /\ c.nDecode = 0)
               /\ ~success =>
                     /\ c.result = NewHttpStatusError(c.resp.status, c.resp.body)
                     /\ c.nDecode = 0
                     /\ c.target = "zero"

\* C5, amended: as stated, except that the status error carries the raw body
\* text only when the body could be read to its end; when reading it fails,
\* the error carries the status code and a text reporting the read failure.
C5_StatusClassification ==
    \A p \in Procs :
        Classified(p) =>
            LET c == call[p]
                success == c.resp.status >= 200 /\ c.resp.status < 300
            IN /\ (success /\ ~c.respObj) =>
                     (c.result = NoError /\ c.nDecode = 0)
               /\ ~success =>
                     /\ c.result.kind = "HttpStatusError"
                     /\ c.result.code = c.resp.status
                     /\ c.result.text =
                            IF c.resp.broken THEN "failed to read response body"
                            ELSE c.resp.body
                     /\ c.nDecode = 0
                     /\ c.target = "zero"

\* C5's case: a 404 with body "not found" came back to a call that passed an
\* output target, and the call has returned the status error.
C5_Witness ==
    \E p \in Procs :
        /\ Classified(p)
        /\ call[p].respObj
        /\ call[p].resp = [status |-> 404, body |-> "not found", broken |-> FALSE]
        /\ call[p].result = NewHttpStatusError(404, "not found")

DefaultedKeys == {HeaderAccept, HeaderContentType}

\* The caller handed in a map that holds at least one value under the key.
Supplied(p, k) ==
    /\ ~call[p].hdrNil
    /\ k \in DOMAIN call[p].hdrArg
    /\ Len(call[p].hdrArg[k]) >= 1

\* A codec call whose outbound request has been built.
Sent(p) == call[p].op \in CodecOps /\ call[p].nTransport = 1

\* C7 as stated: every Accept or Content-Type value the caller supplied, an
\* empty one included, reaches the outbound request unchanged.
C7_Original ==
    \A p \in Procs, k \in DefaultedKeys :
        (Sent(p) /\ Supplied(p, k)) => call[p].req.header[k] = call[p].hdrArg[k]

\* C7, amended: a caller-supplied Accept or Content-Type whose first value is
\* not empty is kept as it is, and with a map whose keys are all in canonical
\* form it is what the outbound request carries; a header that is absent, has
\* no value or has an empty first value is set to the codec's media type.
C7_HeaderDefaulting ==
    \A p \in Procs, k \in DefaultedKeys :
        Sent(p) =>
            LET c == call[p]
                kept == Supplied(p, k) /\ c.hdrArg[k][1] # ""
            IN /\ kept => c.headers[k] = c.hdrArg[k]
               /\ ~kept => c.headers[k] = <<MediaOf(CodecOf(c.op))>>
               /\ (\A x \in DOMAIN c.hdrArg : CanonicalMIMEHeaderKey(x) = x) =>
                     c.req.header[k] = c.headers[k]

\* C7's case: an XML call whose caller set Content-Type: application/json has
\* sent its request with that Content-Type and the XML Accept default.
C7_Witness ==
    \E p \in Procs :
        /\ Sent(p)
        /\ call[p].op = "XmlRequest"
        /\ call[p].hdrArg = ("Content-Type" :> <<"application/json">>)
        /\ call[p].req.header["Content-Type"] = <<"application/json">>
        /\ call[p].req.header["Accept"] = <<"application/xml">>

\* C8: when JsonPost, JsonPut, XmlPost or XmlPut cannot serialize the request
\* object, the call has returned the encode error without a directory
\* resolution, a LoadOrStore, a counter increment or a transport call.
C8_EncodeFailureFirst ==
    \A p \in Procs :
        (/\ call[p].op \in MarshalOps
         /\ ~Marshal(CodecOf(call[p].op), call[p].reqObj).ok) =>
            /\ call[p].pc = "done"
            /\ call[p].result = WrappedError("failed to marshal request object")
            /\ call[p].nResolve = 0
            /\ call[p].rrIndex = Nil
            /\ call[p].nAdd = 0
            /\ call[p].nTransport = 0
            /\ call[p].req = NoReq
            /\ call[p].resp = NoResp

\* C8's case: XmlPost of a map (which JSON takes and XML does not) has
\* returned, on a client that has selected before.
C8_Witness ==
    \E p \in Procs :
        /\ call[p].pc = "done"
        /\ call[p].op = "XmlPost"
        /\ call[p].reqObj = "map"
        /\ rrIndices[call[p].svc] # Nil

\* The selections of service s against lists of length n.
Against(s, n) == {k \in DOMAIN sels[s] : sels[s][k].n = n}

C11_OneDispatchAttempt ==
    \A p \in Procs :
        LET c == call[p]
        IN /\ c.nResolve <= 1
           /\ c.nAdd <= c.nResolve
           /\ c.nTransport <= c.nAdd
           /\ c.err = WrappedError("failed to perform HTTP request") =>
                 /\ c.pc \in {"ret", "done"}
                 /\ c.nResolve = 1
                 /\ c.nAdd = 1
                 /\ c.nTransport = 1
                 /\ c.resp = NoResp
                 /\ c.req.endpoint = c.endpoint

\* C11's case: the transport failed against the chosen endpoint of a list that
\* holds other endpoints, and Request has returned.
C11_Witness ==
    \E p \in Procs :
        /\ call[p].pc = "ret"
        /\ call[p].err = WrappedError("failed to perform HTTP request")
        /\ Len(call[p].endpoints) = 3
        /\ call[p].nTransport = 1


\* C12 as stated: with a fixed list, the round-robin order is kept across the
\* wrap of the counter: every selection returns the index that follows
\* (mod N) the index of the selection before it.
C12_Original ==
    \A s \in Services :
        \A k \in DOMAIN sels[s] :
            k + 1 <= Len(sels[s]) =>
                sels[s][k + 1].idx = (sels[s][k].idx + 1) % sels[s][k].n

\* C12, amended: the counter wraps from 2^32 - 1 to 0, and the selection whose
\* increment wraps it still follows the one before; the selection after that
\* one (post-increment value 1) returns index 0, which follows in the cyclic
\* order only when N divides 2^32, that is for N a power of two; every other
\* pair of selections in a row keeps the cyclic order.
C12_WrapAround ==
    \A s \in Services :
        \A k \in DOMAIN sels[s] :
            k + 1 <= Len(sels[s]) =>
                LET a == sels[s][k]
                    b == sels[s][k + 1]
                    follows == b.idx = (a.idx + 1) % a.n
                IN /\ a.post = <<Half - 1, Half - 1>> => b.post = <<0, 0>>
                   /\ b.post # <<0, 1>> => follows
                   /\ b.post = <<0, 1>> =>
                         /\ b.idx = 0
                         /\ follows <=> a.n \in {1, 2, 4, 8}

\* C12's case: over a list of two, the counter has wrapped and the two
\* selections after the wrap have been made.
C12_Witness ==
    /\ Len(sels["svcA"]) = 4
    /\ sels["svcA"][3].post = <<0, 0>>
    /\ sels["svcA"][3].idx = 1
    /\ sels["svcA"][4].idx = 0
    /\ sels["svcA"][4].n = 2


\* C13: with the list changing length between the calls, every selection
\* returns index (post-increment counter - 1) mod the length of the list that
\* call resolved: an index within that list, and the endpoint the call goes on
\* to is the one that list (the directory's current one) holds there.
C13_CurrentList ==
    /\ \A s \in Services :
         \A k \in DOMAIN sels[s] :
            LET e == sels[s][k]
            IN /\ e.n >= 1
               /\ e.post = <<0, k>>
               /\ e.idx = (k - 1) % e.n
               /\ e.idx >= 0 /\ e.idx < e.n
               /\ e.ep = EndpointList(e.n)[e.idx + 1]
    /\ \A p \in Procs :
         call[p].pc = "dispatch" =>
            LET c == call[p]
                e == sels[c.svc][Len(sels[c.svc])]
            IN /\ c.endpoints = directory[c.svc]
               /\ e.n = Len(c.endpoints)
               /\ c.endpoint = c.endpoints[e.idx + 1]

\* C13's case: the list went from two endpoints to three, down to one and up
\* to three again, a selection made at each length.
C13_Witness ==
    /\ Len(sels["svcA"]) = 4
    /\ sels["svcA"][1].n = 2
    /\ sels["svcA"][2].n = 3
    /\ sels["svcA"][3].n = 1
    /\ sels["svcA"][4].n = 3
    /\ sels["svcA"][4].ep = 1
    /\ call[SeqProc].pc = "dispatch"


\* C14: whatever the calls do (succeed, fail, run concurrently), a service
\* name once in the rotation table stays there with the same counter, a step
\* leaves that counter as it is or adds one to it, and the counter always holds
\* the number of selections made for the service (none for a service that is
\* not in the table).
C14_NoEvictionNoReset ==
    /\ [](\A s \in Services :
            IF rrIndices[s] = Nil
            THEN Len(sels[s]) = 0
            ELSE cells[rrIndices[s]] = <<0, Len(sels[s])>>)
    /\ [][\A s \in Services :
            rrIndices[s] # Nil =>
                /\ rrIndices'[s] = rrIndices[s]
                /\ \/ cells'[rrIndices[s]] = cells[rrIndices[s]]
                   \/ cells'[rrIndices[s]] = U32Inc(cells[rrIndices[s]])]_vars

\* C14's case: both services have a counter, svcA's at two, and a call for
\* svcA has just failed in the transport.
C14_Witness ==
    /\ rrIndices["svcA"] # Nil
    /\ rrIndices["svcB"] # Nil
    /\ cells[rrIndices["svcA"]] = <<0, 2>>
    /\ \E p \in Procs :
         /\ call[p].pc = "ret"
         /\ call[p].svc = "svcA"
         /\ call[p].err = WrappedError("failed to perform HTTP request")


\* The counter of service s: whether the table holds one, and its value.
CounterOf(s) ==
    IF rrIndices[s] = Nil THEN [present |-> FALSE, value |-> U32Zero]
    ELSE [present |-> TRUE, value |-> cells[rrIndices[s]]]

\* C15: a step that makes a selection for one service leaves the counter and
\* the selections of every other service as they are, and however the calls
\* for different services interleave, the k-th selection of each service
\* returns index (k-1) mod N of its own list.
C15_PerServiceIndependence ==
    /\ [](\A s \in Services :
            \A k \in DOMAIN sels[s] :
                /\ sels[s][k].n = Len(directory[s])
                /\ sels[s][k].idx = (k - 1) % Len(directory[s]))
    /\ [][\A s, t \in Services :
            (s # t /\ (sels'[s] # sels[s] \/ CounterOf(s)' # CounterOf(s))) =>
                /\ CounterOf(t)' = CounterOf(t)
                /\ sels'[t] = sels[t]]_vars

\* C15's case: two callers have selected at the same time, one for each
\* service, each service at its second selection over a list of its own length.
C15_Witness ==
    /\ call["p1"].pc = "dispatch" /\ call["p1"].svc = "svcA"
    /\ call["p2"].pc = "dispatch" /\ call["p2"].svc = "svcB"
    /\ Len(directory["svcA"]) = 2
    /\ Len(directory["svcB"]) = 3
    /\ Len(sels["svcA"]) = 2
    /\ Len(sels["svcB"]) = 2
    /\ sels["svcB"][2].idx = 1


\* C16: a getNextEndpoint call on an empty list leaves the rotation table and
\* every counter as they are (no counter is created, none advanced), so the
\* selections on non-empty lists go on as if it had not happened: the k-th of
\* them obtains counter value k and index (k-1) mod N, the first one index 0,
\* however many empty-list calls came before or in between.
C16_EmptyLeavesRotation ==
    /\ [][\A p \in Procs :
            (/\ call[p].pc = "select"
             /\ Len(call[p].endpoints) = 0
             /\ call'[p] # call[p]) =>
                /\ rrIndices' = rrIndices
                /\ cells' = cells
                /\ sels' = sels]_vars
    /\ [](\A s \in Services :
            /\ rrIndices[s] = Nil => sels[s] = <<>>
            /\ rrIndices[s] # Nil =>
                  cells[rrIndices[s]] = <<0, Len(sels[s])>>
            /\ \A k \in DOMAIN sels[s] :
                  /\ sels[s][k].post = <<0, k>>
                  /\ sels[s][k].idx = (k - 1) % sels[s][k].n)
    /\ [](\A p \in Procs :
            (call[p].pc = "ret" /\ call[p].err = ErrNoAvailableEndpoint) =>
                /\ call[p].rrIndex = Nil
                /\ call[p].nAdd = 0)

\* C16's case: the third call of a client has met an empty list and returned,
\* the service's counter standing at one from the only selection made so far.
C16_Witness ==
    /\ call[SeqProc].pc = "ret"
    /\ call[SeqProc].err = ErrNoAvailableEndpoint
    /\ nCalls = 3
    /\ rrIndices["svcA"] # Nil
    /\ cells[rrIndices["svcA"]] = <<0, 1>>
    /\ sels["svcA"][1].idx = 0


\* A call that made its selection and then failed: in Request (request
\* construction, transport), or in the codec layer (non-2xx status, decode
\* error).
FailedAfterSelect(p) ==
    /\ call[p].nAdd = 1
    /\ \/ call[p].pc \in {"ret", "done"} /\ call[p].err # NoError
       \/ call[p].pc = "done" /\ call[p].result # NoError

\* C17: a call that selected and then failed has incremented the service's
\* counter exactly once, so that the counter still holds the number of
\* selections made; from the selection on, no step of the call changes the
\* rotation table or a counter; and the selections go on in rotation whatever
\* became of the calls: the k-th returns index (k-1) mod N, which over a list
\* of two or more is another endpoint than the one before.
C17_FailureConsumesSlot ==
    /\ [](\A p \in Procs :
            FailedAfterSelect(p) =>
                /\ rrIndices[call[p].svc] = call[p].rrIndex
                /\ cells[call[p].rrIndex] = <<0, Len(sels[call[p].svc])>>)
    /\ [](\A s \in Services :
            \A k \in DOMAIN sels[s] :
                /\ sels[s][k].idx = (k - 1) % sels[s][k].n
                /\ (k > 1 /\ sels[s][k].n >= 2 /\ sels[s][k - 1].n = sels[s][k].n)
                      => sels[s][k].ep # sels[s][k - 1].ep)
    /\ [][\A p \in Procs :
            (call[p].pc \in {"dispatch", "ret", "done"} /\ call'[p] # call[p]) =>
                (rrIndices' = rrIndices /\ cells' = cells)]_vars

\* C17's case: the second call for the service, sent to the second endpoint
\* after the first call was sent to the first, has ended in a decode error.
C17_Witness ==
    /\ call[SeqProc].pc = "done"
    /\ call[SeqProc].result = WrappedError("failed to decode response")
    /\ call[SeqProc].req.endpoint = 2
    /\ Len(sels["svcA"]) = 2
    /\ sels["svcA"][1].ep = 1
    /\ cells[rrIndices["svcA"]] = <<0, 2>>


\* The map a JSON-path call leaves behind when it was handed an empty one.
JsonDefaults ==
    (HeaderAccept :> <<MediaJson>>) @@ (HeaderContentType :> <<MediaJson>>)

\* C18: a codec call handed a non-nil map works on that very map, so the map
\* the caller holds carries, from the call on, a non-empty Accept and
\* Content-Type: the codec's media type wherever the caller's first value was
\* missing or empty. A later call handed the map again keeps these values: an
\* XML-path call handed the map a JSON-path call filled in sends
\* application/json. A call handed nil leaves the caller's map as it is.
C18_DefaultsPersist ==
    /\ [](\A p \in Procs :
            (call[p].op \in CodecOps /\ call[p].pc # "idle"
                /\ ~call[p].hdrNil) =>
                LET c == call[p]
                IN /\ callerMap[p] = c.headers
                   /\ \A k \in DefaultedKeys :
                        /\ HeaderGet(callerMap[p], k) # ""
                        /\ HeaderGet(c.hdrArg, k) = "" =>
                              callerMap[p][k] = <<MediaOf(CodecOf(c.op))>>
                        /\ HeaderGet(c.hdrArg, k) # "" =>
                              callerMap[p][k] = c.hdrArg[k]
                   /\ (c.op \in XmlOps /\ c.hdrArg = JsonDefaults
                          /\ c.nTransport = 1) =>
                         c.req.header = JsonDefaults)
    /\ [][\A p \in Procs :
            (call[p].pc = "idle" /\ call'[p].pc # "idle" /\ call'[p].hdrNil) =>
                callerMap'[p] = callerMap[p]]_vars

\* C18's case: an XML-path call handed the map an earlier JSON-path call
\* filled in has sent its request, with application/json in both headers.
C18_Witness ==
    \E p \in Procs :
        /\ call[p].op = "XmlRequest"
        /\ ~call[p].hdrNil
        /\ call[p].hdrArg = JsonDefaults
        /\ call[p].nTransport = 1
        /\ call[p].req.header[HeaderAccept] = <<MediaJson>>
        /\ callerMap[p] = JsonDefaults
        /\ nCalls = 2


\* C19: on a status in [200,300) a call with an output target decodes the body
\* once, whatever the status and the body are, and one without decodes
\* nothing and succeeds; with an output target an empty body (as a 204 has)
\* ends in the decode error, the target left as it was, and the call succeeds
\* only when the body starts with a value of the call's encoding.
C19_SuccessAlwaysDecodes ==
    \A p \in Procs :
        (Classified(p) /\ call[p].resp.status >= 200
            /\ call[p].resp.status < 300) =>
            LET c == call[p]
            IN /\ c.respObj => c.nDecode = 1
               /\ ~c.respObj => (c.nDecode = 0 /\ c.result = NoError)
               /\ (c.respObj /\ c.resp.body = "") =>
                     /\ c.result = WrappedError("failed to decode response")
                     /\ c.target = "zero"
               /\ (c.respObj /\ c.result = NoError) =>
                     /\ Len(Tokens(c.resp.body)) >= 1
                     /\ c.target = CodecOf(c.op)

\* C19's case: a 204 with an empty body came back to a call that passed an
\* output target, and the call has returned the decode error.
C19_Witness ==
    \E p \in Procs :
        /\ Classified(p)
        /\ call[p].respObj
        /\ call[p].resp = [status |-> 204, body |-> "", broken |-> FALSE]
        /\ call[p].nDecode = 1
        /\ call[p].result = WrappedError("failed to decode response")

====
